---- MODULE Spec2Model ----
(***************************************************************************)
(* Model of QCM.py, a Streamlit script that turns a pasted course into     *)
(* multiple-choice questions (QCM) through Google Gemini and grades the    *)
(* user's answer.  Every step of the model is one run of the script,       *)
(* triggered by one widget event; st.session_state persists between runs,  *)
(* the script's local variables do not.                                    *)
(***************************************************************************)
EXTENDS Integers, Sequences, FiniteSets, TLC

VARIABLES
    course_lines,      \* st.session_state.course_lines
    current_qcm,       \* st.session_state.current_qcm
    show_correction,   \* st.session_state.show_correction
    user_selection,    \* st.session_state.user_selection
    gemini_model,      \* TRUE iff a model object was configured in this run
    clicked,           \* the widget event that triggered the last run
    all_lines,         \* local of the "Analyser le cours" handler (line 122),
                       \* [lines |-> ...] once bound
    start_index,       \* local of the "Generer un nouveau QCM" handler
    selected_fragment, \* local of the "Generer un nouveau QCM" handler
    response,          \* local of generate_qcm_with_gemini: what the service did
    checked,           \* the checkboxes ticked when the form was submitted
    surfaced,          \* st.warning / st.error / st.success of the last handler
    answered_current   \* history: current_qcm is the object the last
                       \* "Valider ma reponse" was pressed on

vars == <<course_lines, current_qcm, show_correction, user_selection,
          gemini_model, clicked, all_lines, start_index, selected_fragment,
          response, checked, surfaced, answered_current>>

\* The four fields of st.session_state.
session == <<course_lines, current_qcm, show_correction, user_selection>>

----------------------------------------------------------------------------
(* Bounds of the model *)

MaxTextLines == 2 \* longest course text, in lines joined by line breaks
MaxAnswers == 2   \* longest "correct_answers" list in a reply
MaxLines == 103   \* longest course, in lines, of the fragment specification

(* Program constant *)
chunk_size == 100

----------------------------------------------------------------------------
(* Values *)

None == [none |-> TRUE]          \* Python's None
NoValue == [unbound |-> TRUE]    \* a local that this run did not bind

Whitespace == {" ", "\n"}

\* The lines a course text is made of: empty, blank, and two with words.
LineTexts == {<<>>, <<" ">>, <<"a">>, <<"b", " ">>}

RECURSIVE SeqsUpTo(_, _)
SeqsUpTo(S, n) ==
    IF n = 0 THEN {<<>>}
    ELSE LET shorter == SeqsUpTo(S, n - 1)
         IN  shorter \cup {Append(s, c) : s \in {t \in shorter : Len(t) = n - 1}, c \in S}

Min(a, b) == IF a <= b THEN a ELSE b

----------------------------------------------------------------------------
(* str.strip, str.splitlines, the list comprehension of line 123, "\n".join *)

\* not course_text.strip()
StripIsEmpty(s) == \A i \in 1..Len(s) : s[i] \in Whitespace

\* the lines of s followed by a line break, s being cut at a break near
\* its middle
RECURSIVE TerminatedLines(_)
TerminatedLines(s) ==
    LET mid == (Len(s) \div 2) + 1
        after == {i \in mid..Len(s) : s[i] = "\n"}
        before == {i \in 1..(mid - 1) : s[i] = "\n"}
        brk == IF after # {} THEN CHOOSE i \in after : \A j \in after : i <= j
               ELSE CHOOSE i \in before : \A j \in before : i >= j
    IN  IF after = {} /\ before = {} THEN <<s>>
        ELSE TerminatedLines(SubSeq(s, 1, brk - 1))
                \o TerminatedLines(SubSeq(s, brk + 1, Len(s)))

\* str.splitlines: a final line break opens no further line
splitlines(s) ==
    IF s = <<>> THEN <<>>
    ELSE IF s[Len(s)] = "\n" THEN TerminatedLines(SubSeq(s, 1, Len(s) - 1))
         ELSE TerminatedLines(s)

\* the comprehension with "if line" in place of "if line.strip()"
RECURSIVE NonEmptyLines(_)
NonEmptyLines(ls) ==
    IF ls = <<>> THEN <<>>
    ELSE IF Head(ls) = <<>> THEN NonEmptyLines(Tail(ls))
         ELSE <<Head(ls)>> \o NonEmptyLines(Tail(ls))

\* [line for line in ls if line.strip()]
RECURSIVE NonBlankLines(_)
NonBlankLines(ls) ==
    IF ls = <<>> THEN <<>>
    ELSE IF StripIsEmpty(Head(ls)) THEN NonBlankLines(Tail(ls))
         ELSE <<Head(ls)>> \o NonBlankLines(Tail(ls))

\* "\n".join(lines), the list being cut in halves
RECURSIVE join(_)
join(lines) ==
    IF lines = <<>> THEN <<>>
    ELSE IF Len(lines) = 1 THEN lines[1]
         ELSE LET half == Len(lines) \div 2
              IN  join(SubSeq(lines, 1, half)) \o <<"\n">>
                     \o join(SubSeq(lines, half + 1, Len(lines)))

\* The texts the user may paste or upload.
CourseTexts == {join(ls) : ls \in SeqsUpTo(LineTexts, MaxTextLines)}

----------------------------------------------------------------------------
(* Initialisation du Session State *)

Init ==
    /\ course_lines = <<>>
    /\ current_qcm = None
    /\ show_correction = FALSE
    /\ user_selection = <<>>
    /\ gemini_model = FALSE
    /\ clicked = "none"
    /\ all_lines = NoValue
    /\ start_index = NoValue
    /\ selected_fragment = NoValue
    /\ response = NoValue
    /\ checked = NoValue
    /\ surfaced = "none"
    /\ answered_current = FALSE

----------------------------------------------------------------------------
(* The api key text input: a run in which no button is pressed *)

ConfigureApiKey ==
    /\ \E ok \in BOOLEAN : gemini_model' = ok
    /\ gemini_model' # gemini_model
    /\ clicked' = "api_key"
    /\ all_lines' = NoValue
    /\ start_index' = NoValue
    /\ selected_fragment' = NoValue
    /\ response' = NoValue
    /\ checked' = NoValue
    /\ surfaced' = "none"
    /\ UNCHANGED <<session, answered_current>>

----------------------------------------------------------------------------
(* "Analyser le cours" *)

LoadCourseEmpty(text) ==
    /\ StripIsEmpty(text)
    /\ surfaced' = "warning"
    /\ course_lines' = <<>>
    /\ all_lines' = NoValue
    /\ UNCHANGED <<current_qcm, show_correction, answered_current>>

LoadCourseNonEmpty(text) ==
    /\ ~StripIsEmpty(text)
    /\ all_lines' = [lines |-> splitlines(text)]
    /\ course_lines' = NonBlankLines(all_lines'.lines)
    /\ IF course_lines' = <<>>
       THEN /\ surfaced' = "error"
            /\ UNCHANGED <<current_qcm, show_correction, answered_current>>
       ELSE /\ surfaced' = "success"
            /\ current_qcm' = None
            /\ answered_current' = FALSE
            /\ show_correction' = FALSE

LoadCourse ==
    /\ \E course_text \in CourseTexts :
          \/ LoadCourseEmpty(course_text)
          \/ LoadCourseNonEmpty(course_text)
    /\ clicked' = "analyser"
    /\ start_index' = NoValue
    /\ selected_fragment' = NoValue
    /\ response' = NoValue
    /\ checked' = NoValue
    /\ UNCHANGED <<user_selection, gemini_model>>

----------------------------------------------------------------------------
(* What the text-generation service may answer *)

OptionKeys == {"A", "B"}          \* keys of "options" in a reply
AnswerKeys == {"A", "Z"}          \* keys a reply may list as correct: an
                                  \* option key and a key of no option

\* sort order of the keys (Python compares the strings)
KeyRank(k) == CASE k = "A" -> 1 [] k = "B" -> 2 [] OTHER -> 3

\* A reply following the schema of the prompt in full.
FullObject ==
    [question |-> "q",
     options |-> [k \in OptionKeys |-> "option"],
     correct_answers |-> <<>>,
     explanations |-> [k \in OptionKeys |-> "explanation"]]

\* The fields a reply object carries: all four, or all but one.
AllFields == {"question", "options", "correct_answers", "explanations"}
FieldSets == {AllFields} \cup {AllFields \ {f} : f \in AllFields}

\* JSON objects: any list of keys as correct answers.
JsonObjects ==
    { [f \in fields |->
          IF f = "correct_answers" THEN answers ELSE FullObject[f]] :
        fields \in FieldSets,
        answers \in SeqsUpTo(AnswerKeys, MaxAnswers) }

\* JSON documents: an object, or a value that is not an object.
JsonValues ==
    {[type |-> "object", obj |-> o] : o \in JsonObjects} \cup {[type |-> "number"]}

\* A reply text is a sequence of tokens.
Ticks == [tok |-> "ticks"]         \* three backquotes
JsonWord == [tok |-> "json"]
Newline == [tok |-> "\n"]
Prose == [tok |-> "prose"]
Doc(v) == [tok |-> "doc", val |-> v]

\* The layouts a document may come in: bare, padded, fenced as the prompt
\* forbids, fenced without the word json, followed by prose.
Layouts(v) ==
    { <<Doc(v)>>,
      <<Newline, Doc(v), Newline>>,
      <<Ticks, JsonWord, Newline, Doc(v), Newline, Ticks>>,
      <<Ticks, Newline, Doc(v), Newline, Ticks>>,
      <<Doc(v), Prose>> }

\* Every document bare; one object and one non-object in every layout.
LayoutValues ==
    {[type |-> "object", obj |-> [FullObject EXCEPT !.correct_answers = <<"A">>]],
     [type |-> "number"]}

ReplyTexts ==
    {<<Prose>>, <<>>, <<Ticks, JsonWord>>}
    \cup {<<Doc(v)>> : v \in JsonValues}
    \cup UNION {Layouts(v) : v \in LayoutValues}

\* generate_content either raises or returns a response with a text.
Replies == {[raised |-> TRUE]} \cup {[raised |-> FALSE, text |-> t] : t \in ReplyTexts}

----------------------------------------------------------------------------
(* generate_qcm_with_gemini *)

RECURSIVE lstrip(_)
lstrip(s) == IF s # <<>> /\ Head(s) = Newline THEN lstrip(Tail(s)) ELSE s

RECURSIVE rstrip(_)
rstrip(s) ==
    IF s # <<>> /\ s[Len(s)] = Newline THEN rstrip(SubSeq(s, 1, Len(s) - 1)) ELSE s

strip(s) == rstrip(lstrip(s))

startswith(s, prefix) ==
    Len(s) >= Len(prefix) /\ SubSeq(s, 1, Len(prefix)) = prefix

endswith(s, suffix) ==
    Len(s) >= Len(suffix) /\ SubSeq(s, Len(s) - Len(suffix) + 1, Len(s)) = suffix

\* lines 67-71
StripFences(text) ==
    LET s0 == strip(text)
        s1 == IF startswith(s0, <<Ticks, JsonWord>>)
              THEN strip(SubSeq(s0, 3, Len(s0))) ELSE s0
        s2 == IF endswith(s1, <<Ticks>>)
              THEN strip(SubSeq(s1, 1, Len(s1) - 1)) ELSE s1
    IN  s2

\* json.loads: one document, white space around it allowed
JsonValid(s) == Len(strip(s)) = 1 /\ strip(s)[1].tok = "doc"
JsonLoads(s) == strip(s)[1].val

\* line 75: the fragment_source entry is added to the parsed object
WithFragment(obj, fragment) ==
    [f \in DOMAIN obj \cup {"fragment_source"} |->
        IF f = "fragment_source" THEN fragment ELSE obj[f]]

generate_qcm_with_gemini(fragment, reply) ==
    IF reply.raised THEN [qcm |-> None, error |-> "Exception"]
    ELSE LET qcm_json_string == StripFences(reply.text)
         IN  IF ~JsonValid(qcm_json_string)
             THEN [qcm |-> None, error |-> "JSONDecodeError"]
             ELSE LET qcm_data == JsonLoads(qcm_json_string)
                  IN  IF qcm_data.type # "object"
                      THEN [qcm |-> None, error |-> "Exception"]
                      ELSE [qcm |-> WithFragment(qcm_data.obj, fragment),
                            error |-> "none"]

----------------------------------------------------------------------------
(* "Generer un nouveau QCM" *)

\* line 144: the button is only drawn under this condition
CanRequestNewQuestion == gemini_model /\ course_lines # <<>>

\* lines 161-165: the values start_index can take
StartIndicesOffByOne(lines) ==
    IF Len(lines) <= chunk_size THEN {0} ELSE 0..(Len(lines) - chunk_size + 1)

StartIndices(lines) ==
    IF Len(lines) <= chunk_size THEN {0} ELSE 0..(Len(lines) - chunk_size)

\* line 167: lines[start_index : start_index + chunk_size]
Slice(lines, from, to) == SubSeq(lines, from + 1, Min(to, Len(lines)))

\* lines 150-151
ResetCorrectionKeepsShown ==
    /\ UNCHANGED show_correction
    /\ user_selection' = <<>>

ResetCorrectionKeepsSelection ==
    /\ show_correction' = FALSE
    /\ UNCHANGED user_selection

ResetCorrection ==
    /\ show_correction' = FALSE
    /\ user_selection' = <<>>

\* st.session_state.current_qcm = qcm, kept only when a QCM was produced
StoreQcmIfProduced(qcm) ==
    /\ current_qcm' = IF qcm = None THEN current_qcm ELSE qcm
    /\ answered_current' = (qcm = None /\ answered_current)

\* st.session_state.current_qcm = qcm
StoreQcm(qcm) ==
    /\ current_qcm' = qcm
    /\ answered_current' = FALSE

RequestNewQuestion ==
    /\ CanRequestNewQuestion
    /\ ResetCorrection
    /\ LET lines == course_lines
           num_lines == Len(lines)
       IN  IF num_lines = 0
           THEN /\ surfaced' = "warning"
                /\ StoreQcm(None)
                /\ start_index' = NoValue
                /\ selected_fragment' = NoValue
                /\ response' = NoValue
           ELSE \E start \in StartIndices(lines) :
                  LET selected_lines == Slice(lines, start, start + chunk_size)
                      fragment == join(selected_lines)
                  IN  /\ start_index' = start
                      /\ selected_fragment' = fragment
                      /\ \E reply \in Replies :
                            LET result == generate_qcm_with_gemini(fragment, reply)
                            IN  /\ response' = reply
                                /\ surfaced' = IF result.error = "none"
                                               THEN "none" ELSE "error"
                                /\ StoreQcm(result.qcm)
    /\ clicked' = "generer"
    /\ all_lines' = NoValue
    /\ checked' = NoValue
    /\ UNCHANGED <<course_lines, gemini_model>>

----------------------------------------------------------------------------
(* Affichage du QCM: the form and "Valider ma reponse" *)

Elems(seq) == {seq[i] : i \in 1..Len(seq)}

\* sorted(...) of a list of keys
RECURSIVE Insert(_, _)
Insert(k, seq) ==
    IF seq = <<>> THEN <<k>>
    ELSE IF KeyRank(k) < KeyRank(Head(seq)) THEN <<k>> \o seq
         ELSE <<Head(seq)>> \o Insert(k, Tail(seq))

RECURSIVE sorted(_)
sorted(seq) == IF seq = <<>> THEN <<>> ELSE Insert(Head(seq), sorted(Tail(seq)))

\* sorted(qcm['options'].keys())
RECURSIVE SetToSortedSeq(_)
SetToSortedSeq(S) ==
    IF S = {} THEN <<>>
    ELSE LET k == CHOOSE x \in S : \A y \in S : KeyRank(x) <= KeyRank(y)
         IN  <<k>> \o SetToSortedSeq(S \ {k})

sorted_keys(qcm) == SetToSortedSeq(DOMAIN qcm.options)

\* lines 183-189: the form is drawn only if these lookups succeed
FormDrawn ==
    /\ current_qcm # None
    /\ "question" \in DOMAIN current_qcm
    /\ "options" \in DOMAIN current_qcm

\* lines 188-195 with every checkbox taken as ticked
AllChoices(keys, ticked) == keys

\* lines 188-195: the ticked keys, in the order of the sorted keys
RECURSIVE user_choices(_, _)
user_choices(keys, ticked) ==
    IF keys = <<>> THEN <<>>
    ELSE IF Head(keys) \in ticked
         THEN <<Head(keys)>> \o user_choices(Tail(keys), ticked)
         ELSE user_choices(Tail(keys), ticked)

SubmitAnswer ==
    /\ FormDrawn
    /\ \E ticked \in SUBSET (DOMAIN current_qcm.options) :
          /\ checked' = ticked
          /\ user_selection' = sorted(user_choices(sorted_keys(current_qcm), ticked))
    /\ show_correction' = TRUE
    /\ answered_current' = TRUE
    /\ clicked' = "valider"
    /\ surfaced' = "none"
    /\ all_lines' = NoValue
    /\ start_index' = NoValue
    /\ selected_fragment' = NoValue
    /\ response' = NoValue
    /\ UNCHANGED <<course_lines, current_qcm, gemini_model>>

----------------------------------------------------------------------------
(* Affichage de la Correction *)

\* line 203, and line 206 finding the list of correct answers
CorrectionDrawn ==
    /\ show_correction
    /\ current_qcm # None
    /\ "correct_answers" \in DOMAIN current_qcm

\* line 212: the global success message
is_fully_correct(qcm, user_answers) ==
    user_answers = sorted(qcm.correct_answers)

\* lines 218-220: the options the detailed correction goes through
VerdictsDrawn ==
    /\ CorrectionDrawn
    /\ "options" \in DOMAIN current_qcm
    /\ "explanations" \in DOMAIN current_qcm

\* lines 223-250
Verdict(qcm, user_answers, key) ==
    LET correct_answers == sorted(qcm.correct_answers)
        is_correct_option == key \in Elems(correct_answers)
        user_selected_option == key \in Elems(user_answers)
    IN  IF is_correct_option /\ user_selected_option THEN "CorrectChosen"
        ELSE IF is_correct_option /\ ~user_selected_option THEN "CorrectMissed"
        ELSE IF ~is_correct_option /\ user_selected_option THEN "IncorrectChosen"
        ELSE "IncorrectAvoided"

----------------------------------------------------------------------------
(* The session *)

Next ==
    \/ ConfigureApiKey
    \/ LoadCourse
    \/ RequestNewQuestion
    \/ SubmitAnswer

Spec == Init /\ [][Next]_vars

----------------------------------------------------------------------------
(* The fragment selection on long courses: one request on a loaded course *)

\* Line i of a long course: three contents in turn, none of them blank.
CourseLine(i) ==
    CASE i % 3 = 0 -> <<"a">> [] i % 3 = 1 -> <<"b", " ">> [] OTHER -> <<"a", "a">>

FragInit ==
    /\ \E L \in 1..MaxLines : course_lines = [i \in 1..L |-> CourseLine(i)]
    /\ current_qcm = None
    /\ show_correction = FALSE
    /\ user_selection = <<>>
    /\ gemini_model = TRUE
    /\ clicked = "none"
    /\ all_lines = NoValue
    /\ start_index = NoValue
    /\ selected_fragment = NoValue
    /\ response = NoValue
    /\ checked = NoValue
    /\ surfaced = "none"
    /\ answered_current = FALSE

FragNext == clicked = "none" /\ RequestNewQuestion

FragSpec == FragInit /\ [][FragNext]_vars

----------------------------------------------------------------------------
(* Properties of the session *)

\* C1: whenever the correction is shown, current_qcm is set and is the very
\* MCQ the last answer was submitted on (it was not assigned since).
C1_CorrectionPointsAtAnsweredQcm ==
    show_correction => (current_qcm # None /\ answered_current)

\* The correction is still shown, on the answered MCQ, after an empty text
\* was analysed.
C1_Witness ==
    /\ show_correction
    /\ clicked = "analyser"
    /\ current_qcm # None
    /\ answered_current

\* C2: analysing a text that is empty after trimming (the run that binds no
\* all_lines) leaves course_lines empty, surfaces a warning and clears
\* current_qcm.
C2_EmptyTextClearsQcm ==
    (clicked = "analyser" /\ all_lines = NoValue) =>
        (course_lines = <<>> /\ surfaced = "warning" /\ current_qcm = None)

\* out holds exactly the non-blank members of in, in their order
IsNonBlankSubsequence(out, in) ==
    \E f \in [1..Len(out) -> 1..Len(in)] :
        /\ \A i, j \in 1..Len(out) : i < j => f[i] < f[j]
        /\ \A i \in 1..Len(out) : out[i] = in[f[i]]
        /\ {f[i] : i \in 1..Len(out)} = {j \in 1..Len(in) : ~StripIsEmpty(in[j])}

\* C3: analysing a text that is not empty after trimming (the run that binds
\* all_lines to the lines of the text) sets course_lines to the non-blank
\* lines of the text in their order, which is never the empty sequence,
\* clears current_qcm and hides the correction.
C3_NonEmptyTextLoadsLines ==
    (clicked = "analyser" /\ all_lines # NoValue) =>
        /\ IsNonBlankSubsequence(course_lines, all_lines.lines)
        /\ course_lines # <<>>
        /\ current_qcm = None
        /\ ~show_correction

\* A text with a blank line was analysed after an answer had been submitted.
C3_Witness ==
    /\ clicked = "analyser"
    /\ all_lines # NoValue
    /\ Len(course_lines) < Len(all_lines.lines)
    /\ \E i \in 1..Len(all_lines.lines) : all_lines.lines[i] = <<" ">>
    /\ user_selection # <<>>

\* C4: right after a request for a new question, whether it produced an MCQ
\* or not, the selection is empty and the correction is hidden.
C4_RequestResetsSelection ==
    clicked = "generer" => (user_selection = <<>> /\ ~show_correction)

\* A new MCQ has just been stored.
C4_Witness ==
    /\ clicked = "generer"
    /\ current_qcm # None
    /\ user_selection = <<>>
    /\ ~show_correction

\* the service raised, or its reply without the fences is not valid JSON
GenerationFailed(reply) ==
    reply.raised \/ ~JsonValid(StripFences(reply.text))

\* C5: a request whose generation fails leaves current_qcm at None with an
\* error surfaced, does not touch course_lines, and the button stays drawn.
C5_FailedGenerationClearsQcm ==
    [][(clicked' = "generer" /\ GenerationFailed(response')) =>
          /\ current_qcm' = None
          /\ surfaced' = "error"
          /\ course_lines' = course_lines
          /\ gemini_model' /\ course_lines' # <<>>]_vars

\* A reply that is not valid JSON was received and the request can be retried.
C5_Witness ==
    /\ clicked = "generer"
    /\ ~response.raised
    /\ ~JsonValid(StripFences(response.text))
    /\ current_qcm = None
    /\ surfaced = "error"
    /\ CanRequestNewQuestion

\* C6: an answer can only be submitted on a set current_qcm; the selection
\* stored is exactly the ticked option keys, the correction is shown, and
\* current_qcm and course_lines are left as they were.
C6_SubmitStoresSelection ==
    [][clicked' = "valider" =>
          /\ current_qcm # None
          /\ checked' \subseteq DOMAIN current_qcm.options
          /\ Elems(user_selection') = checked'
          /\ Len(user_selection') = Cardinality(checked')
          /\ show_correction'
          /\ current_qcm' = current_qcm
          /\ course_lines' = course_lines]_vars

\* Some, not all, of the options were ticked and submitted.
C6_Witness ==
    /\ clicked = "valider"
    /\ checked # {}
    /\ checked # DOMAIN current_qcm.options
    /\ Elems(user_selection) = checked
    /\ show_correction

\* C7: the success message is shown iff the selection and correct_answers are
\* equal as sets of keys.
C7_FullyCorrectIffSetsEqual ==
    CorrectionDrawn =>
        (is_fully_correct(current_qcm, user_selection)
            <=> Elems(user_selection) = Elems(current_qcm.correct_answers))

\* the option keys that the correction gives one of the verdicts vs
KeysWithVerdict(vs) ==
    {k \in DOMAIN current_qcm.options :
        Verdict(current_qcm, user_selection, k) \in vs}

\* C8: the correct verdicts cover exactly correct_answers and the incorrect
\* verdicts exactly the other options.
C8_VerdictsPartitionOptions ==
    VerdictsDrawn =>
        /\ KeysWithVerdict({"CorrectChosen", "CorrectMissed"})
              = Elems(current_qcm.correct_answers)
        /\ KeysWithVerdict({"IncorrectChosen", "IncorrectAvoided"})
              = (DOMAIN current_qcm.options) \ Elems(current_qcm.correct_answers)

\* C10: a stored MCQ has at least one correct answer and every correct answer
\* is a key of options.
C10_StoredQcmIsWellFormed ==
    current_qcm # None =>
        /\ "options" \in DOMAIN current_qcm
        /\ "correct_answers" \in DOMAIN current_qcm
        /\ current_qcm.correct_answers # <<>>
        /\ Elems(current_qcm.correct_answers) \subseteq DOMAIN current_qcm.options

----------------------------------------------------------------------------
(* Property of the fragment selection *)

\* C9: the fragment handed to the generator has min(L, W) lines, which are
\* the lines of course_lines from start_index on; start_index lies in
\* 0..L-W when L > W and is 0, the fragment being the whole course, otherwise.
C9_FragmentIsWindow ==
    clicked = "generer" =>
        LET L == Len(course_lines)
            W == chunk_size
            fragment_lines == splitlines(selected_fragment)
        IN  /\ Len(fragment_lines) = Min(L, W)
            /\ start_index \in 0..(L - 1)
            /\ fragment_lines = SubSeq(course_lines, start_index + 1, start_index + Min(L, W))
            /\ L > W => start_index \in 0..(L - W)
            /\ L <= W => (start_index = 0 /\ fragment_lines = course_lines)

\* The last possible window of a course longer than the window was taken.
C9_Witness ==
    /\ clicked = "generer"
    /\ Len(course_lines) > chunk_size + 1
    /\ start_index = Len(course_lines) - chunk_size
    /\ Len(splitlines(selected_fragment)) = chunk_size

====
